---------------------------- MODULE Spec2Model ----------------------------
(***************************************************************************)
(* Model of mark2epub (src/src/mark2epub.py): the EPubGenerator that turns *)
(* a description, chapter sources, images and stylesheets into the         *)
(* documents of an EPUB package and writes them to a zip archive.          *)
(*                                                                         *)
(* Text that the program parses or assembles (paths, ids, titles) is a     *)
(* sequence of one-character strings, so basename, splitext and the        *)
(* f-string formats are computed character by character.                   *)
(***************************************************************************)
EXTENDS Integers, Sequences, FiniteSets, TLC

(***************************************************************************)
(* Bounds of the model.                                                    *)
(***************************************************************************)
MaxChapters == 2

(***************************************************************************)
(* Text helpers.                                                           *)
(***************************************************************************)
DigitChars == <<"0", "1", "2", "3", "4", "5", "6", "7", "8", "9">>

RECURSIVE Dec(_)
\* str(n) / f"{n}": the decimal digits of a natural number.
Dec(n) ==
    IF n < 10 THEN <<DigitChars[n + 1]>>
    ELSE Dec(n \div 10) \o <<DigitChars[(n % 10) + 1]>>

RECURSIVE ZeroPad(_, _)
ZeroPad(s, w) == IF Len(s) >= w THEN s ELSE ZeroPad(<<"0">> \o s, w)

\* f"{index:05d}": at least five digits, zero padded.
Fmt05d(n) == ZeroPad(Dec(n), 5)

\* The greatest index of character c in p, 0 when p has none (str.rfind + 1).
RFind(p, c) ==
    LET hits == {k \in 1..Len(p) : p[k] = c}
    IN  IF hits = {} THEN 0 ELSE CHOOSE k \in hits : \A j \in hits : j <= k

\* os.path.basename: what follows the last "/".
basename(p) == SubSeq(p, RFind(p, "/") + 1, Len(p))

\* os.path.splitext: the extension starts at the last "." of the last
\* component, unless only dots precede it in that component.
splitext(p) ==
    LET sepIndex == RFind(p, "/")
        dotIndex == RFind(p, ".")
    IN  IF /\ dotIndex > sepIndex
           /\ \E k \in (sepIndex + 1)..(dotIndex - 1) : p[k] # "."
        THEN <<SubSeq(p, 1, dotIndex - 1), SubSeq(p, dotIndex, Len(p))>>
        ELSE <<p, <<>>>>

\* os.path.join(a, b) for a relative b.
join(a, b) == a \o <<"/">> \o b

\* The sequences that list every element of the finite set S exactly once.
Perms(S) ==
    {q \in [1..Cardinality(S) -> S] : \A a, b \in 1..Cardinality(S) : a # b => q[a] # q[b]}

Range(s) == {s[k] : k \in 1..Len(s)}

\* The sequences over chars of length up to n.
Strings(chars, n) == UNION {[1..m -> chars] : m \in 0..n}

(***************************************************************************)
(* Text constants of the program.                                          *)
(***************************************************************************)
T_images        == <<"i", "m", "a", "g", "e", "s">>
T_xhtml         == <<".", "x", "h", "t", "m", "l">>
T_gif           == <<".", "g", "i", "f">>
T_jpg           == <<".", "j", "p", "g">>
T_jpeg          == <<".", "j", "p", "e", "g">>
T_png           == <<".", "p", "n", "g">>
T_OPS           == <<"O", "P", "S", "/">>
T_toc           == <<"t", "o", "c">>
T_ncx           == <<"n", "c", "x">>
T_titlepage     == <<"t", "i", "t", "l", "e", "p", "a", "g", "e">>
T_TOC_xhtml     == <<"T", "O", "C">> \o T_xhtml
T_toc_ncx       == <<"t", "o", "c", ".", "n", "c", "x">>
T_titlepage_xhtml == T_titlepage \o T_xhtml
T_mimetype      == <<"m", "i", "m", "e", "t", "y", "p", "e">>
T_container     == <<"M", "E", "T", "A", "-", "I", "N", "F", "/",
                     "c", "o", "n", "t", "a", "i", "n", "e", "r", ".", "x", "m", "l">>
T_package_opf   == T_OPS \o <<"p", "a", "c", "k", "a", "g", "e", ".", "o", "p", "f">>
T_s             == <<"s">>
T_image_        == <<"i", "m", "a", "g", "e", "-">>
T_css_          == <<"c", "s", "s", "-">>
T_navpoint_     == <<"n", "a", "v", "p", "o", "i", "n", "t", "-">>


(***************************************************************************)
(* Program constants: the return codes (src/src/mark2epub.py:135-143) and  *)
(* the exit status of an uncaught Python exception.                        *)
(***************************************************************************)
ERROR_NO_COMMAND == 1
ERROR_UNKNOWN_COMMAND == 2
ERROR_UNKNOWN_OPTION == 3
ERROR_ARGUMENT_COUNT == 4
ERROR_ZOPFLI_UNAVAILABLE == 5
ERROR_DIRECTORY_EXISTS == 7
ERROR_ZOPFLI           == 6
ERROR_INVALID_MARKDOWN == 8
EXIT_UNCAUGHT          == 1
ZIP_STORED             == "ZIP_STORED"
ZIP_DEFLATED           == "ZIP_DEFLATED"

(***************************************************************************)
(* The source directories the model draws its inputs from.                 *)
(***************************************************************************)
\* Chapter sources: "a.md", "d/a.md" (same file name in a directory) and
\* "c.d/e" (no extension, a dot in the directory part).
F_a  == <<"a", ".", "m", "d">>
F_da == <<"d", "/", "a", ".", "m", "d">>
F_e  == <<"c", ".", "d", "/", "e">>
ChapterFiles == {F_a, F_da, F_e}

\* Stylesheets: "css/g.css", "css/s.css", "css/t.css".
K_g == <<"c", "s", "s", "/", "g", ".", "c", "s", "s">>
K_s == <<"c", "s", "s", "/", "s", ".", "c", "s", "s">>
K_t == <<"c", "s", "s", "/", "t", ".", "c", "s", "s">>

\* Entries of the images/ directory: "c.jpg", "x.png", "n.txt".
I_c == <<"c", ".", "j", "p", "g">>
I_x == <<"x", ".", "p", "n", "g">>
I_n == <<"n", ".", "t", "x", "t">>

\* Chapter declarations of description.json; "css" is an optional key.
Ch_a  == [markdown |-> F_a]
Ch_da == [markdown |-> F_da, css |-> K_s]
Ch_e  == [markdown |-> F_e, css |-> K_t]
ChapterDecls == {Ch_a, Ch_da, Ch_e}

ChapterLists == UNION {[1..n -> ChapterDecls] : n \in 0..MaxChapters}

DefaultCssChoices == {<<>>, <<K_g>>, <<K_s, K_g>>, <<K_g, K_g>>}

\* What os.listdir returns for images/: distinct names, in the order of the
\* file system, which is the same every time the same directory is listed.
Listings == {<<>>, <<I_c>>, <<I_x, I_n, I_c>>}

CoverChoices == {join(T_images, I_c), I_c}

\* The "metadata" object: its keys in the order of the file, as pairs.
MetaFull ==
    << <<"dc:title", "T&t">>, <<"dc:creator", "Cr">>, <<"dc:language", "en-US">>,
       <<"dc:identifier", "urn:x">>, <<"meta", "">>, <<"dc:date", "2024">> >>
MetaWithout(key) == SelectSeq(MetaFull, LAMBDA kv : kv[1] # key)
\* The metadata with "dc:identifier": "".
MetaEmptyIdentifier ==
    [k \in 1..Len(MetaFull) |->
        IF MetaFull[k][1] = "dc:identifier" THEN <<"dc:identifier", "">> ELSE MetaFull[k]]

\* description.json missing, or not JSON.
Unreadable == [unreadable |-> TRUE]

\* A chapter source: its text, and what the markdown converter makes of it
\* (the top-level nodes of the converted fragment, and whether the fragment
\* parses as XML).  The converter is external to the program.
Src(text, nodes, ok) == [text |-> text, nodes |-> nodes, wellformed |-> ok]

Text_a  == <<"#", "#", " ", "M", "y", " ", "T", "\n", "B">>
Text_da == <<"I", "#", "n", "\n", "#", "x", "\n", "\n">>
           \o <<"<", "p", ">", "c", "<", "/", "p", ">">>
           \o <<"<", "d", "i", "v", ">", "d", "<", "/", "d", "i", "v", ">">>
Text_e  == <<"#", " ", " ", "E">>

FilesGood ==
    (F_a :> Src(Text_a, <<"h2", "#text", "p">>, TRUE)) @@
    (F_da :> Src(Text_da, <<"p", "#text", "h1", "#text", "p", "div">>, TRUE)) @@
    (F_e :> Src(Text_e, <<"h1">>, TRUE))

\* The same directory with an unclosed tag in "d/a.md".
FilesBad == [FilesGood EXCEPT ![F_da] = Src(Text_da, <<>>, FALSE)]

\* The longest command line.
MaxArgs == 4

\* The most children of an element that append_to is called on.
MaxNodes == 2

\* The longest chapter source drawn character by character.
MaxTextLen == 3

\* The longest metadata value or chapter title drawn character by character.
MaxValueLen == 3

\* The options of the convert command (src/src/mark2epub.py:50-63).
OptionsDefault == [gray_images |-> FALSE, jpeg_quality |-> "95", zopfli |-> FALSE]
OptionsZopfli  == [OptionsDefault EXCEPT !.zopfli = TRUE]

\* str(uuid4()) and datetime.now().strftime(...) in the first and in the
\* second run of the program: uuid4 never repeats, and the clock advances.
UUIDs == <<"uuid-1", "uuid-2">>
Times == <<"2024-01-01T00:00:00Z", "2024-01-01T00:00:01Z">>

Description(meta, cover, css, chapters) ==
    [metadata |-> meta, cover_image |-> cover, default_css |-> css, chapters |-> chapters]

(***************************************************************************)
(* The command line.                                                       *)
(***************************************************************************)
\* Python's None, True and False where the program keeps them next to text:
\* one-element sequences that no text (a sequence of characters) equals.
PyNone  == <<"<None>">>
PyTrue  == <<"<True>">>
PyFalse == <<"<False>">>

\* What Python takes for true in "if value".
Truthy(value) == value \notin {PyNone, PyFalse, <<>>}

T_dashes       == <<"-", "-">>
T_convert      == <<"c", "o", "n", "v", "e", "r", "t">>
T_init         == <<"i", "n", "i", "t">>
T_help         == <<"h", "e", "l", "p">>
T_gray_images  == <<"g", "r", "a", "y", "-", "i", "m", "a", "g", "e", "s">>
T_jpeg_quality == <<"j", "p", "e", "g", "-", "q", "u", "a", "l", "i", "t", "y">>
T_zopfli       == <<"z", "o", "p", "f", "l", "i">>

\* OPTIONS: per command, the defaults of its settings and the number of
\* arguments it takes.  A dict is a function from its keys.
OPTIONS ==
    (T_convert :> [settings |-> (T_gray_images :> PyFalse) @@
                                (T_jpeg_quality :> <<"9", "5">>) @@
                                (T_zopfli :> PyFalse),
                   min_args |-> 2, max_args |-> 2]) @@
    (T_init :> [settings |-> <<>>, min_args |-> 1, max_args |-> 1]) @@
    (T_help :> [settings |-> <<>>, min_args |-> 0, max_args |-> 0])

\* d[key] = value on a dict.
DictSet(d, key, value) ==
    [k \in DOMAIN d \cup {key} |-> IF k = key THEN value ELSE d[k]]

\* d.update(e): every key of e, the others as they were.
DictUpdate(d, e) ==
    [k \in DOMAIN d \cup DOMAIN e |-> IF k \in DOMAIN e THEN e[k] ELSE d[k]]

\* command_line as parse_command_line starts with.
EmptyCommandLine == [command |-> PyNone, options |-> <<>>, arguments |-> <<>>]

\* argument.startswith("--").
IsOption(argument) == Len(argument) >= 2 /\ SubSeq(argument, 1, 2) = T_dashes

\* argument[2:].split("=", 1): the key, and the value (True without "=").
OptionKey(argument) ==
    LET text == SubSeq(argument, 3, Len(argument))
        eqs == {k \in 1..Len(text) : text[k] = "="}
    IN  IF eqs = {} THEN text
        ELSE SubSeq(text, 1, (CHOOSE k \in eqs : \A j \in eqs : k <= j) - 1)

OptionValue(argument) ==
    LET text == SubSeq(argument, 3, Len(argument))
        eqs == {k \in 1..Len(text) : text[k] = "="}
    IN  IF eqs = {} THEN PyTrue
        ELSE SubSeq(text, (CHOOSE k \in eqs : \A j \in eqs : k <= j) + 1, Len(text))

\* Mutant: "--" is dropped but does not end the options.
ParseArgument_DashesIgnored(cl, eoo, argument) ==
    IF argument = T_dashes
    THEN [command_line |-> cl, end_of_options |-> FALSE]
    ELSE IF IsOption(argument)
    THEN [command_line |->
              [cl EXCEPT !.options = DictSet(@, OptionKey(argument), OptionValue(argument))],
          end_of_options |-> eoo]
    ELSE IF cl.command = PyNone
    THEN [command_line |->
              [cl EXCEPT !.command = argument,
                         !.options = IF argument \in DOMAIN OPTIONS
                                     THEN DictUpdate(@, OPTIONS[argument].settings)
                                     ELSE @],
          end_of_options |-> eoo]
    ELSE [command_line |-> [cl EXCEPT !.arguments = Append(@, argument)],
          end_of_options |-> eoo]

\* One turn of the loop of parse_command_line: the command line and
\* end_of_options after the argument.
ParseArgument(cl, eoo, argument) ==
    IF ~eoo /\ argument = T_dashes
    THEN [command_line |-> cl, end_of_options |-> TRUE]
    ELSE IF ~eoo /\ IsOption(argument)
    THEN [command_line |->
              [cl EXCEPT !.options = DictSet(@, OptionKey(argument), OptionValue(argument))],
          end_of_options |-> eoo]
    ELSE IF cl.command = PyNone
    THEN [command_line |->
              [cl EXCEPT !.command = argument,
                         !.options = IF argument \in DOMAIN OPTIONS
                                     THEN DictUpdate(@, OPTIONS[argument].settings)
                                     ELSE @],
          end_of_options |-> eoo]
    ELSE [command_line |-> [cl EXCEPT !.arguments = Append(@, argument)],
          end_of_options |-> eoo]

RECURSIVE ParseFrom(_, _, _)
\* The loop of parse_command_line from the given state over the arguments.
ParseFrom(cl, eoo, arguments) ==
    IF arguments = <<>> THEN cl
    ELSE LET after == ParseArgument(cl, eoo, Head(arguments))
         IN  ParseFrom(after.command_line, after.end_of_options, Tail(arguments))

\* parse_command_line.
parse_command_line(arguments) == ParseFrom(EmptyCommandLine, FALSE, arguments)

\* Mutant: the number of arguments is checked before the options.
check_command_line_CountFirst(cl) ==
    IF cl.command = PyNone THEN ERROR_NO_COMMAND
    ELSE IF cl.command \notin DOMAIN OPTIONS THEN ERROR_UNKNOWN_COMMAND
    ELSE IF ~(/\ OPTIONS[cl.command].min_args <= Len(cl.arguments)
              /\ Len(cl.arguments) <= OPTIONS[cl.command].max_args)
    THEN ERROR_ARGUMENT_COUNT
    ELSE IF \E option \in DOMAIN cl.options :
                option \notin DOMAIN OPTIONS[cl.command].settings
    THEN ERROR_UNKNOWN_OPTION
    ELSE 0

\* check_command_line: the code it exits with, 0 when it returns.
check_command_line(cl) ==
    IF cl.command = PyNone THEN ERROR_NO_COMMAND
    ELSE IF cl.command \notin DOMAIN OPTIONS THEN ERROR_UNKNOWN_COMMAND
    ELSE IF \E option \in DOMAIN cl.options :
                option \notin DOMAIN OPTIONS[cl.command].settings
    THEN ERROR_UNKNOWN_OPTION
    ELSE IF ~(/\ OPTIONS[cl.command].min_args <= Len(cl.arguments)
              /\ Len(cl.arguments) <= OPTIONS[cl.command].max_args)
    THEN ERROR_ARGUMENT_COUNT
    ELSE 0

\* The options as create_epub and process_image read them.
BuildOptions(o) ==
    [gray_images |-> Truthy(o[T_gray_images]), jpeg_quality |-> o[T_jpeg_quality],
     zopfli |-> Truthy(o[T_zopfli])]

\* The arguments the program is run with.
A_zopfli == T_dashes \o T_zopfli
A_other  == <<"-", "-", "o", "=", "a", "=", "b">>
A_src    == <<"s">>

ArgumentChoices == {T_dashes, A_zopfli, A_other, T_convert, T_init, T_help, A_src}

Argvs == Strings(ArgumentChoices, MaxArgs)

(***************************************************************************)
(* State.                                                                  *)
(***************************************************************************)
VARIABLES
    description,    \* description.json of the source directory
    listing,        \* os.listdir of the images/ directory
    files,          \* the chapter sources of the source directory
    options,        \* the options main passes to create_epub
    pc,             \* where the run of the program is
    idx,            \* the index of the loop create_epub is in
    uuid,           \* EPubGenerator.uuid
    settings_data,  \* EPubGenerator.settings_data
    markdowns,      \* EPubGenerator.markdowns
    language,       \* EPubGenerator.language
    styles,         \* EPubGenerator.styles, as the order the set iterates in
    images,         \* EPubGenerator.images
    epub,           \* the members written to the destination archive
    epub_state,     \* "absent", "open" or "closed" (a readable zip file)
    exit_code,      \* the exit status of the process, -1 while it runs
    previous,       \* what the previous run of the program produced
    optimizer,      \* the external optimizers this run has run, with their return codes
    call,           \* a call of one function on its own: its name, argument and result
    argv,           \* the arguments of the process (sys.argv[1:])
    command_line,   \* command_line of parse_command_line, then command of main
    end_of_options, \* end_of_options of parse_command_line
    argi,           \* how many arguments the loop of parse_command_line has taken
    which_results   \* the which() lookups main has made, with what they found

vars == <<description, listing, files, options, pc, idx, uuid, settings_data,
          markdowns, language, styles, images, epub, epub_state, exit_code,
          previous, optimizer, call, argv, command_line, end_of_options, argi,
          which_results>>

inputs == <<description, listing, files, options>>
generator == <<uuid, settings_data, markdowns, language, styles, images>>
cli == <<argv, command_line, end_of_options, argi, which_results>>

None == "None"
NoBuild == [ran |-> FALSE]
NoCall == [fn |-> None]

\* main has parsed and checked a convert command line that asks for the
\* options, and found the tools it looked for.
AfterCommandLine ==
    /\ argv = IF options.zopfli THEN <<T_convert, A_zopfli, A_src, A_src>>
              ELSE <<T_convert, A_src, A_src>>
    /\ command_line = parse_command_line(argv)
    /\ end_of_options = FALSE
    /\ argi = Len(argv)
    /\ which_results = IF options.zopfli
                       THEN <<[tool |-> "advzip", found |-> TRUE],
                              [tool |-> "zopflipng", found |-> TRUE]>>
                       ELSE <<>>

\* The structure family: every combination of chapters, default
\* stylesheets, images and cover reference, with well-formed sources.
InitStructure ==
    /\ description \in {Description(MetaFull, c, d, ch) :
                           c \in CoverChoices, d \in DefaultCssChoices, ch \in ChapterLists}
    /\ listing \in Listings
    /\ files = FilesGood
    /\ options = OptionsDefault

\* The failure family: one description with a malformed chapter, a missing
\* key, an empty identifier, a description that cannot be read, or the
\* external optimizers requested.
InitFailure ==
    /\ listing = <<I_x, I_n, I_c>>
    /\ \/ /\ description = Description(MetaFull, join(T_images, I_c), <<K_g>>, <<Ch_a, Ch_da>>)
          /\ files = FilesBad
          /\ options = OptionsDefault
       \/ /\ description = Description(MetaFull, join(T_images, I_c), <<K_g>>, <<Ch_a, Ch_da>>)
          /\ files = FilesGood
          /\ options = OptionsZopfli
       \/ /\ \E k \in {"dc:title", "dc:creator", "dc:language", "dc:identifier"} :
                description = Description(MetaWithout(k), join(T_images, I_c), <<K_g>>, <<Ch_a>>)
          /\ files = FilesGood
          /\ options = OptionsDefault
       \/ /\ description \in
                {[metadata |-> MetaFull, default_css |-> <<K_g>>, chapters |-> <<Ch_a>>],
                 Description(MetaEmptyIdentifier, join(T_images, I_c), <<K_g>>, <<Ch_a>>),
                 Unreadable}
          /\ files = FilesGood
          /\ options = OptionsDefault

Init ==
    /\ InitStructure \/ InitFailure
    /\ pc = "start"
    /\ idx = 0
    /\ uuid = None
    /\ settings_data = None
    /\ markdowns = <<>>
    /\ language = None
    /\ styles = <<>>
    /\ images = <<>>
    /\ epub = <<>>
    /\ epub_state = "absent"
    /\ exit_code = -1
    /\ previous = NoBuild
    /\ optimizer = <<>>
    /\ call = NoCall
    /\ AfterCommandLine

(***************************************************************************)
(* Module-level functions.                                                 *)
(***************************************************************************)
\* Mutant: ".jpeg" is not known, only ".jpg".
get_image_mimetype_NoJpeg(image_name) ==
    LET extension == splitext(image_name)[2]
    IN  IF extension = T_gif THEN "image/gif"
        ELSE IF extension = T_jpg THEN "image/jpeg"
        ELSE IF extension = T_png THEN "image/png"
        ELSE "application/octet-stream"

\* get_image_mimetype: the mimetype of an image, from the extension of its name.
get_image_mimetype(image_name) ==
    LET extension == splitext(image_name)[2]
    IN  IF extension = T_gif THEN "image/gif"
        ELSE IF extension \in {T_jpg, T_jpeg} THEN "image/jpeg"
        ELSE IF extension = T_png THEN "image/png"
        ELSE "application/octet-stream"

\* dict lookups on the "metadata" object; a missing key raises KeyError.
MetaHas(meta, key) == \E k \in 1..Len(meta) : meta[k][1] = key
MetaGet(meta, key) == meta[CHOOSE k \in 1..Len(meta) : meta[k][1] = key][2]

(***************************************************************************)
(* EPubGenerator.__init__ and find_images.                                 *)
(***************************************************************************)
\* find_images: the entries of images/ with an image extension, in the
\* order of the listing, each as "images/<name>".
find_images ==
    LET extensions == {T_gif, T_jpg, T_jpeg, T_png}
    IN  SelectSeq([k \in 1..Len(listing) |-> join(T_images, basename(listing[k]))],
                  LAMBDA image : splitext(image)[2] \in extensions)

\* The elements of the set built by
\*   set(default_css); update([chapter["css"] for chapter if "css" in chapter]).
StyleSet(data) ==
    Range(data.default_css) \cup
        {data.chapters[k].css : k \in {j \in 1..Len(data.chapters) : "css" \in DOMAIN data.chapters[j]}}

\* The orders in which a Python set of strings with these elements can
\* iterate: string hashes are salted per process, so any order can come
\* out; the order of one set object does not change while it is not modified.
SetIterationOrders(S) == Perms(S)

(***************************************************************************)
(* The documents.  A document is modelled by its tree: the attributes and  *)
(* children the builders set, in document order.                           *)
(***************************************************************************)
\* _create_package: the attributes of the package element.
_create_package ==
    [xmlns |-> "http://www.idpf.org/2007/opf", version |-> "3.0",
     xml_lang |-> language, unique_identifier |-> uuid]

RECURSIVE MetadataEntries(_, _)
\* The loop over metadata_settings.items(): one element per non-empty value.
MetadataEntries(meta, k) ==
    IF k > Len(meta) THEN <<>>
    ELSE LET key == meta[k][1]
             value == meta[k][2]
             ids == [title |-> "title", creator |-> "creator", identifier |-> uuid]
             entry == IF key = "dc:title" THEN [tag |-> key, id |-> ids.title, text |-> value]
                      ELSE IF key = "dc:creator" THEN [tag |-> key, id |-> ids.creator, text |-> value]
                      ELSE IF key = "dc:identifier" THEN [tag |-> key, id |-> ids.identifier, text |-> value]
                      ELSE [tag |-> key, text |-> value]
         IN  (IF Len(value) = 0 THEN <<>> ELSE <<entry>>) \o MetadataEntries(meta, k + 1)

RECURSIVE CoverMetas(_)
\* The loop that adds a meta name="cover" for each image equal to cover_image.
CoverMetas(k) ==
    IF k > Len(images) THEN <<>>
    ELSE (IF images[k] = settings_data.cover_image
          THEN <<[tag |-> "meta", name |-> "cover", content |-> T_image_ \o Fmt05d(k - 1)]>>
          ELSE <<>>) \o CoverMetas(k + 1)

RECURSIVE CoverMetas_OneBased(_)
\* Mutant: the cover reference names the image after the cover.
CoverMetas_OneBased(k) ==
    IF k > Len(images) THEN <<>>
    ELSE (IF images[k] = settings_data.cover_image
          THEN <<[tag |-> "meta", name |-> "cover", content |-> T_image_ \o Fmt05d(k)]>>
          ELSE <<>>) \o CoverMetas_OneBased(k + 1)

\* Mutant: an element for every metadata field, the empty ones included.
_create_metadata_KeepEmpty(now) ==
    [k \in 1..Len(settings_data.metadata) |->
        [tag |-> settings_data.metadata[k][1], text |-> settings_data.metadata[k][2]]]
        \o <<[tag |-> "meta", property |-> "dcterms:modified", text |-> now]>>
        \o CoverMetas(1)

\* Mutant: the cover reference built from CoverMetas_OneBased.
_create_metadata_CoverOneBased(now) ==
    MetadataEntries(settings_data.metadata, 1)
        \o <<[tag |-> "meta", property |-> "dcterms:modified", text |-> now]>>
        \o CoverMetas_OneBased(1)

\* _create_metadata, at time now.
_create_metadata(now) ==
    MetadataEntries(settings_data.metadata, 1)
        \o <<[tag |-> "meta", property |-> "dcterms:modified", text |-> now]>>
        \o CoverMetas(1)

\* One image item of the manifest (index counts from 0).
ImageItem(index, image_name) ==
    LET image == [id |-> T_image_ \o Fmt05d(index), href |-> image_name,
                  media_type |-> get_image_mimetype(image_name)]
    IN  IF image_name = settings_data.cover_image
        THEN [id |-> image.id, href |-> image.href, media_type |-> image.media_type,
              properties |-> "cover-image"]
        ELSE image

\* Mutant: chapter ids made from the slug instead of the index.
_create_manifest_SlugIds ==
    << [id |-> T_toc, properties |-> "nav", href |-> T_TOC_xhtml,
        media_type |-> "application/xhtml+xml"],
       [id |-> T_ncx, href |-> T_toc_ncx, media_type |-> "application/x-dtbncx+xml"],
       [id |-> T_titlepage, href |-> T_titlepage_xhtml,
        media_type |-> "application/xhtml+xml"] >>
    \o [k \in 1..Len(markdowns) |->
          LET base == splitext(basename(markdowns[k].markdown))[1]
          IN  [id |-> T_s \o <<"-">> \o base,
               href |-> T_s \o Fmt05d(k - 1) \o <<"-">> \o base \o T_xhtml,
               media_type |-> "application/xhtml+xml"]]
    \o [k \in 1..Len(images) |-> ImageItem(k - 1, images[k])]
    \o [k \in 1..Len(styles) |->
          [id |-> T_css_ \o Fmt05d(k - 1), href |-> styles[k], media_type |-> "text/css"]]

\* Mutant: the stylesheets listed before the images.
_create_manifest_StylesFirst ==
    << [id |-> T_toc, properties |-> "nav", href |-> T_TOC_xhtml,
        media_type |-> "application/xhtml+xml"],
       [id |-> T_ncx, href |-> T_toc_ncx, media_type |-> "application/x-dtbncx+xml"],
       [id |-> T_titlepage, href |-> T_titlepage_xhtml,
        media_type |-> "application/xhtml+xml"] >>
    \o [k \in 1..Len(markdowns) |->
          LET base == splitext(basename(markdowns[k].markdown))[1]
          IN  [id |-> T_s \o Fmt05d(k - 1),
               href |-> T_s \o Fmt05d(k - 1) \o <<"-">> \o base \o T_xhtml,
               media_type |-> "application/xhtml+xml"]]
    \o [k \in 1..Len(styles) |->
          [id |-> T_css_ \o Fmt05d(k - 1), href |-> styles[k], media_type |-> "text/css"]]
    \o [k \in 1..Len(images) |-> ImageItem(k - 1, images[k])]

\* _create_manifest.
_create_manifest ==
    << [id |-> T_toc, properties |-> "nav", href |-> T_TOC_xhtml,
        media_type |-> "application/xhtml+xml"],
       [id |-> T_ncx, href |-> T_toc_ncx, media_type |-> "application/x-dtbncx+xml"],
       [id |-> T_titlepage, href |-> T_titlepage_xhtml,
        media_type |-> "application/xhtml+xml"] >>
    \o [k \in 1..Len(markdowns) |->
          LET base == splitext(basename(markdowns[k].markdown))[1]
          IN  [id |-> T_s \o Fmt05d(k - 1),
               href |-> T_s \o Fmt05d(k - 1) \o <<"-">> \o base \o T_xhtml,
               media_type |-> "application/xhtml+xml"]]
    \o [k \in 1..Len(images) |-> ImageItem(k - 1, images[k])]
    \o [k \in 1..Len(styles) |->
          [id |-> T_css_ \o Fmt05d(k - 1), href |-> styles[k], media_type |-> "text/css"]]

\* Mutant: the chapter references count from 1.
_create_spine_OneBased ==
    <<[idref |-> T_titlepage, linear |-> "yes"]>>
    \o [k \in 1..Len(markdowns) |-> [idref |-> T_s \o Fmt05d(k), linear |-> "yes"]]

\* Mutant: the title page referenced after the chapters.
_create_spine_TitleLast ==
    [k \in 1..Len(markdowns) |-> [idref |-> T_s \o Fmt05d(k - 1), linear |-> "yes"]]
    \o <<[idref |-> T_titlepage, linear |-> "yes"]>>

\* _create_spine.
_create_spine ==
    <<[idref |-> T_titlepage, linear |-> "yes"]>>
    \o [k \in 1..Len(markdowns) |-> [idref |-> T_s \o Fmt05d(k - 1), linear |-> "yes"]]

\* _create_guide.
_create_guide ==
    <<[type |-> "cover", title |-> "Cover image", href |-> T_titlepage_xhtml]>>

\* package_opf_xml, at time now.
package_opf_xml(now) ==
    [package |-> _create_package, metadata |-> _create_metadata(now),
     manifest |-> _create_manifest, spine |-> _create_spine, guide |-> _create_guide]

\* _create_metadata reads settings_data["cover_image"] once per image.
PackageRaises == images # <<>> /\ "cover_image" \notin DOMAIN settings_data

\* container_xml.
container_xml ==
    [root |-> "container", version |-> "1.0",
     full_path |-> T_package_opf, media_type |-> "application/oebps-package+xml"]

\* Mutant: the title page without the language of the description.
coverpage_xml_NoLang ==
    [xml_lang |-> None, title |-> MetaGet(settings_data.metadata, "dc:title"),
     links |-> styles, body_class |-> "cover", img_src |-> settings_data.cover_image]

\* coverpage_xml.
coverpage_xml ==
    [xml_lang |-> language, title |-> MetaGet(settings_data.metadata, "dc:title"),
     links |-> styles, body_class |-> "cover", img_src |-> settings_data.cover_image]

CoverpageRaises ==
    \/ "cover_image" \notin DOMAIN settings_data
    \/ ~MetaHas(settings_data.metadata, "dc:title")

\* str.split("\n")[0].
FirstLine(text) ==
    LET breaks == {k \in 1..Len(text) : text[k] = "\n"}
    IN  IF breaks = {} THEN text
        ELSE SubSeq(text, 1, (CHOOSE k \in breaks : \A j \in breaks : k <= j) - 1)

RECURSIVE StripLeading(_, _)
StripLeading(text, c) ==
    IF text # <<>> /\ Head(text) = c THEN StripLeading(Tail(text), c) ELSE text

\* Mutant: every leading "#" and space is stripped, in any order (lstrip).
chapter_title_Lstrip(markdown_name) ==
    LET line == FirstLine(files[markdown_name].text)
        n == CHOOSE n \in 0..Len(line) :
                 /\ \A m \in 1..n : line[m] \in {"#", " "}
                 /\ n < Len(line) => line[n + 1] \notin {"#", " "}
    IN  SubSeq(line, n + 1, Len(line))

\* chapter_title: sub(r'^#* *', '', first line of the source).
chapter_title(markdown_name) ==
    StripLeading(StripLeading(FirstLine(files[markdown_name].text), "#"), " ")

\* Mutant: the contents page links the chapters without their index prefix.
toc_xml_NoIndex ==
    [xml_lang |-> language, title |-> "Contents", links |-> settings_data.default_css,
     nav |-> [k \in 1..Len(markdowns) |->
                LET base == splitext(basename(markdowns[k].markdown))[1]
                    title == chapter_title(markdowns[k].markdown)
                IN  [href |-> T_s \o <<"-">> \o base \o T_xhtml,
                     text |-> title]]]

\* toc_xml.
toc_xml ==
    [xml_lang |-> language, title |-> "Contents", links |-> settings_data.default_css,
     nav |-> [k \in 1..Len(markdowns) |->
                LET base == splitext(basename(markdowns[k].markdown))[1]
                    title == chapter_title(markdowns[k].markdown)
                IN  [href |-> T_s \o Fmt05d(k - 1) \o <<"-">> \o base \o T_xhtml,
                     text |-> title]]]

\* Mutant: the navPoints list the chapters in reverse.
tocncx_xml_Reversed ==
    [xml_lang |-> language, version |-> "2005-1",
     uid |-> MetaGet(settings_data.metadata, "dc:identifier"),
     docTitle |-> MetaGet(settings_data.metadata, "dc:title"),
     docAuthor |-> MetaGet(settings_data.metadata, "dc:creator"),
     navMap |-> [k \in 1..Len(markdowns) |->
                   LET r == Len(markdowns) + 1 - k
                       base == splitext(basename(markdowns[r].markdown))[1]
                       title == chapter_title(markdowns[r].markdown)
                   IN  [id |-> T_navpoint_ \o Dec(k - 1), label |-> title,
                        src |-> T_s \o Fmt05d(r - 1) \o <<"-">> \o base \o T_xhtml]]]

\* tocncx_xml.
tocncx_xml ==
    [xml_lang |-> language, version |-> "2005-1",
     uid |-> MetaGet(settings_data.metadata, "dc:identifier"),
     docTitle |-> MetaGet(settings_data.metadata, "dc:title"),
     docAuthor |-> MetaGet(settings_data.metadata, "dc:creator"),
     navMap |-> [k \in 1..Len(markdowns) |->
                   LET base == splitext(basename(markdowns[k].markdown))[1]
                       title == chapter_title(markdowns[k].markdown)
                   IN  [id |-> T_navpoint_ \o Dec(k - 1), label |-> title,
                        src |-> T_s \o Fmt05d(k - 1) \o <<"-">> \o base \o T_xhtml]]]

TocncxRaises ==
    \E key \in {"dc:identifier", "dc:title", "dc:creator"} :
        ~MetaHas(settings_data.metadata, key)

RECURSIVE MoveChildren(_, _, _)
\* for element in childNodes: body.appendChild(element) -- appendChild takes
\* the node out of the list the loop is iterating, which then skips the next.
MoveChildren(childNodes, j, body) ==
    IF j > Len(childNodes) THEN body
    ELSE MoveChildren(SubSeq(childNodes, 1, j - 1) \o SubSeq(childNodes, j + 1, Len(childNodes)),
                      j + 1, Append(body, childNodes[j]))

\* chapter_xml, for a source whose converted markup parses.
chapter_xml(markdown_name, chapter_styles) ==
    [xml_lang |-> language, title |-> chapter_title(markdown_name),
     links |-> chapter_styles,
     body |-> MoveChildren(files[markdown_name].nodes, 1, <<>>)]

\* parseString raises ExpatError, which chapter_xml turns into fatal_error.
ChapterRaises(markdown_name) == ~files[markdown_name].wellformed

(***************************************************************************)
(* The archive.                                                            *)
(***************************************************************************)
\* Mutant: every member deflated, mimetype included.
epub_put_AllDeflated(archive, filename, data) ==
    Append(archive, [filename |-> filename, data |-> data,
                     compress_type |-> ZIP_DEFLATED, compresslevel |-> 9])

\* epub_put: mimetype is stored, every other member deflated at level 9.
epub_put(archive, filename, data) ==
    IF filename = T_mimetype
    THEN Append(archive, [filename |-> filename, data |-> data,
                          compress_type |-> ZIP_STORED, compresslevel |-> None])
    ELSE Append(archive, [filename |-> filename, data |-> data,
                          compress_type |-> ZIP_DEFLATED, compresslevel |-> 9])

\* Mutant: the error is dropped and create_epub goes on to close the archive.
AbortInArchive_GoOn(code) ==
    /\ pc' = "close"
    /\ idx' = 0
    /\ UNCHANGED <<epub, epub_state, exit_code>>

\* An exception (SystemExit included) leaves the with-block of create_epub:
\* ZipFile.__exit__ closes the archive, which completes the zip file with
\* the members written so far, and the process exits with the code.
AbortInArchive(code) ==
    /\ pc' = "exit"
    /\ exit_code' = code
    /\ epub_state' = "closed"
    /\ UNCHANGED <<epub, idx>>

\* The format PIL reads from an image file; the images of the modelled
\* directory hold the format their extension names.
ImageFormat(image_name) ==
    LET extension == splitext(image_name)[2]
    IN  IF extension \in {T_jpg, T_jpeg} THEN "JPEG"
        ELSE IF extension = T_png THEN "PNG"
        ELSE "GIF"

\* process_image: the bytes written for an image; rc is the return code of
\* zopflipng when it is run.
process_image(image_name, opts, rc) ==
    [image |-> image_name, gray |-> opts.gray_images,
     quality |-> IF ImageFormat(image_name) = "JPEG" THEN opts.jpeg_quality ELSE None,
     zopfli |-> ImageFormat(image_name) = "PNG" /\ opts.zopfli]

RunsZopflipng(image_name, opts) == ImageFormat(image_name) = "PNG" /\ opts.zopfli

(***************************************************************************)
(* Actions.                                                                *)
(***************************************************************************)
\* The number of the run of the program: 1, or 2 after Rerun.
Run == IF previous.ran THEN 2 ELSE 1

\* What makes __init__ raise: description.json missing or not JSON (no key
\* can be read from it), or without "chapters", "metadata", "dc:language"
\* or "default_css".
LoadRaises ==
    \/ \E key \in {"chapters", "metadata", "default_css"} : key \notin DOMAIN description
    \/ ~MetaHas(description.metadata, "dc:language")

\* EPubGenerator.__init__.
Load ==
    /\ pc = "start"
    /\ IF ~LoadRaises
       THEN /\ uuid' = "m2e-" \o UUIDs[Run]
            /\ settings_data' = description
            /\ markdowns' = [k \in 1..Len(description.chapters) |-> description.chapters[k]]
            /\ language' = MetaGet(description.metadata, "dc:language")
            /\ styles' \in SetIterationOrders(StyleSet(description))
            /\ images' = find_images
            /\ pc' = "loaded"
            /\ UNCHANGED exit_code
       ELSE /\ pc' = "exit"
            /\ exit_code' = EXIT_UNCAUGHT
            /\ UNCHANGED generator
    /\ UNCHANGED <<inputs, cli, call, optimizer, idx, epub, epub_state, previous>>

\* create_epub: with ZipFile(epub_path, "w") as epub.
OpenEpub ==
    /\ pc = "loaded"
    /\ epub' = <<>>
    /\ epub_state' = "open"
    /\ pc' = "mimetype"
    /\ UNCHANGED <<inputs, cli, call, optimizer, generator, idx, exit_code, previous>>

PutMimetype ==
    /\ pc = "mimetype"
    /\ epub' = epub_put(epub, T_mimetype, "application/epub+zip")
    /\ pc' = "container"
    /\ UNCHANGED <<inputs, cli, call, optimizer, generator, idx, epub_state, exit_code, previous>>

PutContainer ==
    /\ pc = "container"
    /\ epub' = epub_put(epub, T_container, container_xml)
    /\ pc' = "package"
    /\ UNCHANGED <<inputs, cli, call, optimizer, generator, idx, epub_state, exit_code, previous>>

PutPackage ==
    /\ pc = "package"
    /\ IF PackageRaises
       THEN AbortInArchive(EXIT_UNCAUGHT)
       ELSE /\ epub' = epub_put(epub, T_package_opf, package_opf_xml(Times[Run]))
            /\ pc' = "titlepage"
            /\ UNCHANGED <<idx, epub_state, exit_code>>
    /\ UNCHANGED <<inputs, cli, call, optimizer, generator, previous>>

PutTitlepage ==
    /\ pc = "titlepage"
    /\ IF CoverpageRaises
       THEN AbortInArchive(EXIT_UNCAUGHT)
       ELSE /\ epub' = epub_put(epub, T_OPS \o T_titlepage_xhtml, coverpage_xml)
            /\ pc' = IF Len(settings_data.chapters) > 0 THEN "chapter" ELSE "toc"
            /\ UNCHANGED <<idx, epub_state, exit_code>>
    /\ UNCHANGED <<inputs, cli, call, optimizer, generator, previous>>

\* Mutant: chapter_styles is the default_css list itself, not a copy, so the
\* chapter's css is appended to the description the generator holds.
PutChapter_NoCopy ==
    /\ pc = "chapter"
    /\ LET chapter == settings_data.chapters[idx + 1]
           chapter_name == chapter.markdown
           chapter_styles == IF "css" \in DOMAIN chapter
                             THEN Append(settings_data.default_css, chapter.css)
                             ELSE settings_data.default_css
           base == splitext(basename(chapter_name))[1]
       IN  /\ settings_data' = [settings_data EXCEPT !.default_css = chapter_styles]
           /\ IF ChapterRaises(chapter_name)
              THEN AbortInArchive(ERROR_INVALID_MARKDOWN)
              ELSE /\ epub' = epub_put(epub,
                                       T_OPS \o T_s \o Fmt05d(idx) \o <<"-">> \o base \o T_xhtml,
                                       chapter_xml(chapter_name, chapter_styles))
                   /\ IF idx + 1 < Len(settings_data.chapters)
                      THEN idx' = idx + 1 /\ pc' = "chapter"
                      ELSE idx' = 0 /\ pc' = "toc"
                   /\ UNCHANGED <<epub_state, exit_code>>
    /\ UNCHANGED <<inputs, cli, call, optimizer, uuid, markdowns, language, styles, images,
                   previous>>

\* One turn of the loop over settings_data["chapters"]; idx is index.
PutChapter ==
    /\ pc = "chapter"
    /\ LET chapter == settings_data.chapters[idx + 1]
           chapter_name == chapter.markdown
           chapter_styles == IF "css" \in DOMAIN chapter
                             THEN Append(settings_data.default_css, chapter.css)
                             ELSE settings_data.default_css
           base == splitext(basename(chapter_name))[1]
       IN  IF ChapterRaises(chapter_name)
           THEN AbortInArchive(ERROR_INVALID_MARKDOWN)
           ELSE /\ epub' = epub_put(epub,
                                    T_OPS \o T_s \o Fmt05d(idx) \o <<"-">> \o base \o T_xhtml,
                                    chapter_xml(chapter_name, chapter_styles))
                /\ IF idx + 1 < Len(settings_data.chapters)
                   THEN idx' = idx + 1 /\ pc' = "chapter"
                   ELSE idx' = 0 /\ pc' = "toc"
                /\ UNCHANGED <<epub_state, exit_code>>
    /\ UNCHANGED <<inputs, cli, call, optimizer, generator, previous>>

PutToc ==
    /\ pc = "toc"
    /\ epub' = epub_put(epub, T_OPS \o T_TOC_xhtml, toc_xml)
    /\ pc' = "ncx"
    /\ UNCHANGED <<inputs, cli, call, optimizer, generator, idx, epub_state, exit_code, previous>>

PutNcx ==
    /\ pc = "ncx"
    /\ IF TocncxRaises
       THEN AbortInArchive(EXIT_UNCAUGHT)
       ELSE /\ epub' = epub_put(epub, T_OPS \o T_toc_ncx, tocncx_xml)
            /\ pc' = IF Len(images) > 0 THEN "image"
                     ELSE IF Len(styles) > 0 THEN "style" ELSE "close"
            /\ UNCHANGED <<idx, epub_state, exit_code>>
    /\ UNCHANGED <<inputs, cli, call, optimizer, generator, previous>>

\* One turn of the loop over self.images.
PutImage ==
    /\ pc = "image"
    /\ LET image_name == images[idx + 1]
       IN  \E rc \in IF RunsZopflipng(image_name, options) THEN {0, 1} ELSE {0} :
             /\ optimizer' = IF RunsZopflipng(image_name, options)
                             THEN Append(optimizer, [tool |-> "zopflipng", rc |-> rc])
                             ELSE optimizer
             /\ IF rc # 0
                THEN AbortInArchive(ERROR_ZOPFLI)
                ELSE /\ epub' = epub_put(epub, T_OPS \o image_name,
                                         process_image(image_name, options, rc))
                     /\ IF idx + 1 < Len(images)
                        THEN idx' = idx + 1 /\ pc' = "image"
                        ELSE idx' = 0 /\ pc' = IF Len(styles) > 0 THEN "style" ELSE "close"
                     /\ UNCHANGED <<epub_state, exit_code>>
    /\ UNCHANGED <<inputs, cli, call, generator, previous>>

\* One turn of the loop over self.styles.
PutStyle ==
    /\ pc = "style"
    /\ LET style_name == styles[idx + 1]
       IN  epub' = epub_put(epub, T_OPS \o style_name, [file |-> style_name])
    /\ IF idx + 1 < Len(styles)
       THEN idx' = idx + 1 /\ pc' = "style"
       ELSE idx' = 0 /\ pc' = "close"
    /\ UNCHANGED <<inputs, cli, call, optimizer, generator, epub_state, exit_code, previous>>

\* The with-block of create_epub ends: the archive is closed.
CloseEpub ==
    /\ pc = "close"
    /\ epub_state' = "closed"
    /\ pc' = "written"
    /\ UNCHANGED <<inputs, cli, call, optimizer, generator, idx, epub, exit_code, previous>>

\* main after create_epub: advzip when zopfli is set (run with check=False,
\* its return code is not looked at), then the SUCCESS message.
Finish ==
    /\ pc = "written"
    /\ \E rc \in IF options.zopfli THEN {0, 1} ELSE {0} :
          optimizer' = IF options.zopfli
                       THEN Append(optimizer, [tool |-> "advzip", rc |-> rc])
                       ELSE optimizer
    /\ pc' = "success"
    /\ exit_code' = 0
    /\ UNCHANGED <<inputs, cli, call, generator, idx, epub, epub_state, previous>>

\* What a finished run leaves to compare a later run with.
Structure(archive) ==
    LET opf == archive[CHOOSE k \in 1..Len(archive) : archive[k].filename = T_package_opf].data
    IN  [ran |-> TRUE, manifest |-> opf.manifest, spine |-> opf.spine, guide |-> opf.guide,
         members |-> [k \in 1..Len(archive) |-> archive[k].filename]]

\* The program is run a second time, in a new process, on the same source
\* directory and destination.
Rerun ==
    /\ pc = "success"
    /\ ~previous.ran
    /\ previous' = Structure(epub)
    /\ pc' = "start"
    /\ idx' = 0
    /\ uuid' = None
    /\ settings_data' = None
    /\ markdowns' = <<>>
    /\ language' = None
    /\ styles' = <<>>
    /\ images' = <<>>
    /\ exit_code' = -1
    /\ optimizer' = <<>>
    /\ UNCHANGED <<inputs, cli, call, epub, epub_state>>

\* The steps of EPubGenerator(source_directory), create_epub and the end of
\* main's convert branch.
Build ==
    \/ Load
    \/ OpenEpub
    \/ PutMimetype
    \/ PutContainer
    \/ PutPackage
    \/ PutTitlepage
    \/ PutChapter
    \/ PutToc
    \/ PutNcx
    \/ PutImage
    \/ PutStyle
    \/ CloseEpub
    \/ Finish

Next == Build \/ Rerun

Spec == Init /\ [][Next]_vars

(***************************************************************************)
(* create_epub called a second time on the same generator.                 *)
(***************************************************************************)
\* create_epub has returned; it is called again on the generator that made
\* the archive, whose members and whose own fields are kept in previous.
CreateEpubAgain ==
    /\ pc = "written"
    /\ ~previous.ran
    /\ previous' = [ran |-> TRUE, members |-> [k \in 1..Len(epub) |-> epub[k].filename],
                    generator |-> generator]
    /\ pc' = "loaded"
    /\ idx' = 0
    /\ UNCHANGED <<inputs, cli, call, optimizer, generator, epub, epub_state, exit_code>>

NextAgain == Build \/ CreateEpubAgain

SpecAgain == Init /\ [][NextAgain]_vars

(***************************************************************************)
(* main, from the arguments of the process.                                *)
(***************************************************************************)
\* Nothing is loaded, written or called yet.
Unbuilt ==
    /\ idx = 0
    /\ uuid = None
    /\ settings_data = None
    /\ markdowns = <<>>
    /\ language = None
    /\ styles = <<>>
    /\ images = <<>>
    /\ epub = <<>>
    /\ epub_state = "absent"
    /\ exit_code = -1
    /\ previous = NoBuild
    /\ optimizer = <<>>
    /\ call = NoCall

\* The process starts with any command line of up to MaxArgs arguments, on
\* a source directory with two chapters, three files in images/ and two
\* stylesheets.
InitMain ==
    /\ description = Description(MetaFull, join(T_images, I_c), <<K_g>>, <<Ch_a, Ch_da>>)
    /\ listing = <<I_x, I_n, I_c>>
    /\ files = FilesGood
    /\ options = <<>>
    /\ argv \in Argvs
    /\ command_line = EmptyCommandLine
    /\ end_of_options = FALSE
    /\ argi = 0
    /\ which_results = <<>>
    /\ pc = "main"
    /\ Unbuilt

\* One turn of the loop of parse_command_line.
ParseStep ==
    /\ pc = "main"
    /\ argi < Len(argv)
    /\ LET after == ParseArgument(command_line, end_of_options, argv[argi + 1])
       IN  /\ command_line' = after.command_line
           /\ end_of_options' = after.end_of_options
    /\ argi' = argi + 1
    /\ UNCHANGED <<inputs, generator, argv, which_results, pc, idx, epub, epub_state,
                   exit_code, previous, optimizer, call>>

\* parse_command_line returns; main calls check_command_line.
CheckCommandLine ==
    /\ pc = "main"
    /\ argi = Len(argv)
    /\ IF check_command_line(command_line) # 0
       THEN pc' = "exit" /\ exit_code' = check_command_line(command_line)
       ELSE pc' = "checked" /\ UNCHANGED exit_code
    /\ UNCHANGED <<inputs, generator, cli, idx, epub, epub_state, previous,
                   optimizer, call>>

\* Mutant: only advzip is required; zopflipng is looked for and not needed.
MainConvert_AdvzipOnly ==
    /\ pc = "checked"
    /\ command_line.command = T_convert
    /\ options' = BuildOptions(command_line.options)
    /\ LET use_zopfli == Truthy(command_line.options[T_zopfli])
       IN  \E advzip \in IF use_zopfli THEN BOOLEAN ELSE {TRUE} :
           \E zopflipng \in IF use_zopfli /\ advzip THEN BOOLEAN ELSE {TRUE} :
              /\ which_results' =
                    IF ~use_zopfli THEN <<>>
                    ELSE IF ~advzip THEN <<[tool |-> "advzip", found |-> FALSE]>>
                    ELSE <<[tool |-> "advzip", found |-> TRUE],
                           [tool |-> "zopflipng", found |-> zopflipng]>>
              /\ IF advzip
                 THEN pc' = "start" /\ UNCHANGED exit_code
                 ELSE pc' = "exit" /\ exit_code' = ERROR_ZOPFLI_UNAVAILABLE
    /\ UNCHANGED <<description, listing, files, generator, argv, command_line,
                   end_of_options, argi, idx, epub, epub_state, previous, optimizer, call>>

\* main, command convert, up to the construction of the generator: advzip
\* and then zopflipng are looked for when zopfli is set.
MainConvert ==
    /\ pc = "checked"
    /\ command_line.command = T_convert
    /\ options' = BuildOptions(command_line.options)
    /\ LET use_zopfli == Truthy(command_line.options[T_zopfli])
       IN  \E advzip \in IF use_zopfli THEN BOOLEAN ELSE {TRUE} :
           \E zopflipng \in IF use_zopfli /\ advzip THEN BOOLEAN ELSE {TRUE} :
              /\ which_results' =
                    IF ~use_zopfli THEN <<>>
                    ELSE IF ~advzip THEN <<[tool |-> "advzip", found |-> FALSE]>>
                    ELSE <<[tool |-> "advzip", found |-> TRUE],
                           [tool |-> "zopflipng", found |-> zopflipng]>>
              /\ IF advzip /\ zopflipng
                 THEN pc' = "start" /\ UNCHANGED exit_code
                 ELSE pc' = "exit" /\ exit_code' = ERROR_ZOPFLI_UNAVAILABLE
    /\ UNCHANGED <<description, listing, files, generator, argv, command_line,
                   end_of_options, argi, idx, epub, epub_state, previous, optimizer, call>>

\* main, command help: print_usage, and main returns.
MainHelp ==
    /\ pc = "checked"
    /\ command_line.command = T_help
    /\ pc' = "exit"
    /\ exit_code' = 0
    /\ UNCHANGED <<inputs, generator, cli, idx, epub, epub_state, previous,
                   optimizer, call>>

\* main, command init: create_template, which stops when mkdir finds the
\* directory there.
MainInit ==
    /\ pc = "checked"
    /\ command_line.command = T_init
    /\ pc' = "exit"
    /\ \E exists \in BOOLEAN :
          exit_code' = IF exists THEN ERROR_DIRECTORY_EXISTS ELSE 0
    /\ UNCHANGED <<inputs, generator, cli, idx, epub, epub_state, previous,
                   optimizer, call>>

NextMain ==
    \/ ParseStep
    \/ CheckCommandLine
    \/ MainConvert
    \/ MainHelp
    \/ MainInit
    \/ Build

SpecMain == InitMain /\ [][NextMain]_vars

(***************************************************************************)
(* Functions called on their own.                                          *)
(***************************************************************************)
\* The program about to construct the generator.
Fresh ==
    /\ pc = "start"
    /\ Unbuilt
    /\ AfterCommandLine

\* A source directory for the functions that read no more than one file.
OneChapter ==
    /\ description = Description(MetaFull, join(T_images, I_c), <<K_g>>, <<Ch_a>>)
    /\ listing = <<I_c>>
    /\ options = OptionsDefault

\* Chapter sources: every text of up to MaxTextLen characters out of "#",
\* space, a letter and the line end, and the three sources above.
SourceTexts == Strings({"#", " ", "a", "\n"}, MaxTextLen) \cup {Text_a, Text_da, Text_e}

InitTitle ==
    /\ OneChapter
    /\ \E text \in SourceTexts : files = [FilesGood EXCEPT ![F_a].text = text]
    /\ Fresh

\* chapter_title called on a chapter of the source directory.
CallChapterTitle ==
    /\ call = NoCall
    /\ \E markdown_name \in DOMAIN files :
          call' = [fn |-> "chapter_title", arg |-> markdown_name,
                   result |-> chapter_title(markdown_name)]
    /\ UNCHANGED <<inputs, cli, generator, pc, idx, epub, epub_state, exit_code,
                   previous, optimizer>>

NextTitle == CallChapterTitle

SpecTitle == InitTitle /\ [][NextTitle]_vars

(***************************************************************************)
(* Writing text and attribute values, and reading them back.               *)
(***************************************************************************)
RECURSIVE Replace(_, _, _)
\* str.replace(old, new) for a one-character old.
Replace(text, old, new) ==
    IF text = <<>> THEN <<>>
    ELSE IF Head(text) = old THEN new \o Replace(Tail(text), old, new)
    ELSE <<Head(text)>> \o Replace(Tail(text), old, new)

E_amp  == <<"&", "a", "m", "p", ";">>
E_lt   == <<"&", "l", "t", ";">>
E_quot == <<"&", "q", "u", "o", "t", ";">>
E_gt   == <<"&", "g", "t", ";">>

\* Mutant: the ampersand is replaced last, after the entities were written.
WriteData_AmpLast(data) ==
    Replace(Replace(Replace(Replace(data, "<", E_lt), "\"", E_quot), ">", E_gt), "&", E_amp)

\* What toxml and toprettyxml write for the data of a text node and for the
\* value of an attribute (minidom's _write_data): four replacements, the
\* ampersand first.
WriteData(data) ==
    Replace(Replace(Replace(Replace(data, "&", E_amp), "<", E_lt), "\"", E_quot), ">", E_gt)

\* The character an entity reference stands for, None for an unknown one.
EntityChar(reference) ==
    IF reference = E_amp THEN "&"
    ELSE IF reference = E_lt THEN "<"
    ELSE IF reference = E_gt THEN ">"
    ELSE IF reference = E_quot THEN "\""
    ELSE IF reference = <<"&", "a", "p", "o", "s", ";">> THEN "'"
    ELSE None

RECURSIVE ParseData(_, _)
\* An XML parser reading character data (place "text") or a double-quoted
\* attribute value (place "attribute"): whether it is well-formed, and the
\* string it stands for.
ParseData(written, place) ==
    IF written = <<>> THEN [ok |-> TRUE, value |-> <<>>]
    ELSE IF Head(written) = "<" \/ (Head(written) = "\"" /\ place = "attribute")
    THEN [ok |-> FALSE, value |-> <<>>]
    ELSE IF Head(written) = "&"
    THEN IF \E k \in 1..Len(written) : written[k] = ";"
         THEN LET end == CHOOSE k \in 1..Len(written) :
                             /\ written[k] = ";"
                             /\ \A m \in 1..(k - 1) : written[m] # ";"
                  char == EntityChar(SubSeq(written, 1, end))
                  rest == ParseData(SubSeq(written, end + 1, Len(written)), place)
              IN  IF char = None THEN [ok |-> FALSE, value |-> <<>>]
                  ELSE [ok |-> rest.ok, value |-> <<char>> \o rest.value]
         ELSE [ok |-> FALSE, value |-> <<>>]
    ELSE LET rest == ParseData(Tail(written), place)
         IN  [ok |-> rest.ok, value |-> <<Head(written)>> \o rest.value]

\* The values a description or a chapter's first line can hold: every
\* string of up to MaxValueLen characters out of the four XML specials and
\* a letter.
Values == Strings({"&", "<", ">", "\"", "a"}, MaxValueLen)

\* The value is the title, the language and the identifier of the
\* description, and the first line of the chapter.
InitEscape ==
    /\ \E value \in Values :
          /\ description =
                 Description(<<<<"dc:title", value>>, <<"dc:creator", "Cr">>,
                               <<"dc:language", value>>, <<"dc:identifier", value>>>>,
                             join(T_images, I_c), <<K_g>>, <<Ch_a>>)
          /\ files = [FilesGood EXCEPT ![F_a].text = value]
    /\ listing = <<I_c>>
    /\ options = OptionsDefault
    /\ Fresh

\* create(tag, attributes, content) with the content as a text node, then
\* toxml: dc:title in package.opf, docTitle in toc.ncx, the chapter's title
\* in TOC.xhtml and in the navPoint labels of toc.ncx.
WriteText ==
    /\ call = NoCall
    /\ \E content \in {MetaGet(description.metadata, "dc:title"), chapter_title(F_a)} :
          call' = [fn |-> "toxml", place |-> "text", arg |-> content,
                   result |-> WriteData(content)]
    /\ UNCHANGED <<inputs, cli, generator, pc, idx, epub, epub_state, exit_code,
                   previous, optimizer>>

\* create(tag, attributes) with the value in an attribute, then toxml: the
\* content of the dtb:uid meta of toc.ncx, the xml:lang of the documents.
WriteAttribute ==
    /\ call = NoCall
    /\ \E value \in {MetaGet(description.metadata, "dc:identifier"),
                     MetaGet(description.metadata, "dc:language")} :
          call' = [fn |-> "toxml", place |-> "attribute", arg |-> value,
                   result |-> WriteData(value)]
    /\ UNCHANGED <<inputs, cli, generator, pc, idx, epub, epub_state, exit_code,
                   previous, optimizer>>

NextEscape == WriteText \/ WriteAttribute

SpecEscape == InitEscape /\ [][NextEscape]_vars

(***************************************************************************)
(* get_image_mimetype called on its own.                                   *)
(***************************************************************************)
\* File names: a stem (empty, plain, with an earlier extension, dots only)
\* followed by an ending (none, the four image extensions, another
\* extension, an upper-case one, a lone dot).
FileNames ==
    {stem \o ending :
        stem \in {<<>>, <<"t">>, <<"t">> \o T_gif, <<".">>, <<".", ".">>},
        ending \in {<<>>, T_gif, T_jpg, T_jpeg, T_png,
                    <<".", "t", "x", "t">>, <<".", "P", "N", "G">>, <<".">>}}

\* Directory parts put before the file name: none, a plain directory, and
\* directories with a dot or an image extension in their name.
DirectoryParts ==
    {<<>>, <<"e", "/">>, <<"e", ".", "e", "/">>, <<"a">> \o T_png \o <<"/">>}

\* The images directory holds one file of any of the names.
InitMime ==
    /\ description = Description(MetaFull, join(T_images, I_c), <<K_g>>, <<Ch_a>>)
    /\ \E name \in FileNames : listing = <<name>>
    /\ files = FilesGood
    /\ options = OptionsDefault
    /\ Fresh

\* get_image_mimetype called with the path of the file.
CallGetImageMimetype ==
    /\ call = NoCall
    /\ \E directory \in DirectoryParts :
          call' = [fn |-> "get_image_mimetype", arg |-> directory \o listing[1],
                   result |-> get_image_mimetype(directory \o listing[1])]
    /\ UNCHANGED <<inputs, cli, generator, pc, idx, epub, epub_state, exit_code,
                   previous, optimizer>>

NextMime == CallGetImageMimetype

SpecMime == InitMime /\ [][NextMime]_vars

(***************************************************************************)
(* create and append_to called on their own.                               *)
(***************************************************************************)
\* Python values handed to create: None, a str, a dict as the set of its
\* items, an Element.
PyNoneValue == [type |-> "NoneType"]
PyStr(s) == [type |-> "str", value |-> s]
PyDict(items) == [type |-> "dict", items |-> items]

\* Mutant: the content is left out only when it is None.
create_NoneOnly(tag, attributes, content) ==
    [type |-> "Element", tag |-> tag,
     attributes |-> IF attributes.type = "NoneType" THEN {} ELSE attributes.items,
     childNodes |-> IF content.type = "NoneType" THEN <<>>
                    ELSE IF content.type = "Element" THEN <<content>>
                    ELSE <<[type |-> "Text", data |-> content.value]>>]

\* create: an element with the attributes set and, for a content that
\* Python takes for true, the content as child (an Element as it is, a str
\* as a text node).
create(tag, attributes, content) ==
    [type |-> "Element", tag |-> tag,
     attributes |-> IF attributes.type = "NoneType" THEN {} ELSE attributes.items,
     childNodes |-> IF content.type = "NoneType" \/ (content.type = "str" /\ content.value = "")
                    THEN <<>>
                    ELSE IF content.type = "Element" THEN <<content>>
                    ELSE <<[type |-> "Text", data |-> content.value]>>]

\* append_to: the element create gives, and doc with it as its last child.
append_to(doc, tag, attributes, content) ==
    LET element == create(tag, attributes, content)
    IN  [element |-> element, doc |-> [doc EXCEPT !.childNodes = Append(@, element)]]

\* The arguments of the calls: the tags, attributes and contents of the
\* tests, and an element as content.
Tags == {"body", "p", "html"}
AttributeChoices ==
    {PyNoneValue, PyDict({<<"class", "left">>}), PyDict({<<"class", "left">>, <<"id", "x">>})}
ContentChoices ==
    {PyNoneValue, PyStr(""), PyStr("Hello"),
     [type |-> "Element", tag |-> "b", attributes |-> {}, childNodes |-> <<>>]}

InitCreate ==
    /\ OneChapter
    /\ files = FilesGood
    /\ Fresh

\* create(tag, attributes, content).
CallCreate ==
    /\ call = NoCall
    /\ \E tag \in Tags, attributes \in AttributeChoices, content \in ContentChoices :
          call' = [fn |-> "create", tag |-> tag, attributes |-> attributes,
                   content |-> content, result |-> create(tag, attributes, content)]
    /\ UNCHANGED <<inputs, cli, generator, pc, idx, epub, epub_state, exit_code,
                   previous, optimizer>>

\* append_to(parent, tag, attributes, content), the parent being an element
\* that create or an earlier append_to has made, of less than MaxNodes
\* children.
CallAppendTo ==
    /\ call.fn \in {"create", "append_to"}
    /\ LET parent == IF call.fn = "create" THEN call.result ELSE call.parent_after
       IN  /\ Len(parent.childNodes) < MaxNodes
           /\ \E tag \in Tags, attributes \in AttributeChoices, content \in ContentChoices :
                 call' = [fn |-> "append_to", parent |-> parent, tag |-> tag,
                          attributes |-> attributes, content |-> content,
                          result |-> append_to(parent, tag, attributes, content).element,
                          parent_after |-> append_to(parent, tag, attributes, content).doc]
    /\ UNCHANGED <<inputs, cli, generator, pc, idx, epub, epub_state, exit_code,
                   previous, optimizer>>

NextCreate == CallCreate \/ CallAppendTo

SpecCreate == InitCreate /\ [][NextCreate]_vars

(***************************************************************************)
(* Reading the archive.                                                    *)
(***************************************************************************)
HasMember(name) == \E k \in 1..Len(epub) : epub[k].filename = name
Member(name) == epub[CHOOSE k \in 1..Len(epub) : epub[k].filename = name].data

\* The archive is the one the generator now loaded has written.
InThisRun == epub_state = "open" \/ pc \in {"written", "success"}

HasPackage == HasMember(T_package_opf)
Opf == Member(T_package_opf)
HasToc == HasMember(T_OPS \o T_TOC_xhtml)
HasNcx == HasMember(T_OPS \o T_toc_ncx)

\* The content document name of the chapter declared at position k (from 1).
ChapterDocName(k) ==
    T_s \o Fmt05d(k - 1) \o <<"-">>
        \o splitext(basename(description.chapters[k].markdown))[1] \o T_xhtml

HasProperty(item, value) == "properties" \in DOMAIN item /\ item.properties = value

\* The images the directory listing holds, by extension.
DiscoveredImages ==
    SelectSeq(listing, LAMBDA name : splitext(name)[2] \in {T_gif, T_jpg, T_jpeg, T_png})

\* The members of the archive that are XML documents the program generates,
\* META-INF/container.xml left aside.
LanguageDocuments ==
    {T_package_opf, T_OPS \o T_titlepage_xhtml, T_OPS \o T_TOC_xhtml, T_OPS \o T_toc_ncx}
        \cup {T_OPS \o ChapterDocName(k) : k \in 1..Len(description.chapters)}

\* The xml:lang attribute of the root element of a document, None without.
LangOf(document) ==
    IF "package" \in DOMAIN document THEN document.package.xml_lang
    ELSE IF "xml_lang" \in DOMAIN document THEN document.xml_lang
    ELSE None

(***************************************************************************)
(* Properties.                                                             *)
(***************************************************************************)
\* C1: in every package document written, the ids of the manifest items are
\* pairwise distinct, also when chapters share a file name or are listed twice.
C1_ManifestIdsDistinct ==
    HasPackage =>
        LET m == Opf.manifest
        IN  \A a, b \in 1..Len(m) : a # b => m[a].id # m[b].id

\* A package with two chapters of the same file name, two images and two styles.
C1_Witness ==
    /\ HasPackage
    /\ Len(description.chapters) = 2
    /\ basename(description.chapters[1].markdown) = basename(description.chapters[2].markdown)
    /\ Len(Opf.manifest) >= 9

\* C2: every spine idref is the id of a manifest item, and the guide href,
\* every TOC.xhtml link and every toc.ncx content src is the href of one.
C2_ReferentialIntegrity ==
    HasPackage =>
        LET m == Opf.manifest
            ids == {m[k].id : k \in 1..Len(m)}
            hrefs == {m[k].href : k \in 1..Len(m)}
        IN  /\ \A k \in 1..Len(Opf.spine) : Opf.spine[k].idref \in ids
            /\ \A k \in 1..Len(Opf.guide) : Opf.guide[k].href \in hrefs
            /\ HasToc =>
                 \A k \in 1..Len(Member(T_OPS \o T_TOC_xhtml).nav) :
                    Member(T_OPS \o T_TOC_xhtml).nav[k].href \in hrefs
            /\ HasNcx =>
                 \A k \in 1..Len(Member(T_OPS \o T_toc_ncx).navMap) :
                    Member(T_OPS \o T_toc_ncx).navMap[k].src \in hrefs

\* Package, TOC.xhtml and toc.ncx written for two chapters.
C2_Witness ==
    /\ HasPackage /\ HasToc /\ HasNcx
    /\ Len(Opf.spine) = 3
    /\ Len(Member(T_OPS \o T_TOC_xhtml).nav) = 2
    /\ Len(Member(T_OPS \o T_toc_ncx).navMap) = 2

\* C3: the spine is the title page followed by one itemref per chapter in
\* declaration order (1 + N entries), all of them linear.
C3_SpineOrder ==
    HasPackage =>
        LET m == Opf.manifest
            spine == Opf.spine
            N == Len(description.chapters)
        IN  /\ Len(spine) = 1 + N
            /\ spine[1].idref = T_titlepage
            /\ \A k \in 1..N :
                 \E j \in 1..Len(m) : /\ m[j].id = spine[k + 1].idref
                                      /\ m[j].href = ChapterDocName(k)
            /\ \A k \in 1..Len(spine) : spine[k].linear = "yes"

\* A package written for two chapters of different sources.
C3_Witness ==
    /\ HasPackage
    /\ Len(description.chapters) = 2
    /\ description.chapters[1] # description.chapters[2]
    /\ Len(Opf.spine) = 3

\* C4: TOC.xhtml and toc.ncx both list exactly the N chapters, in the order
\* of the spine's chapter entries, with the same title and href, and neither
\* lists the title page.
C4_NavMatchesSpine ==
    (HasPackage /\ HasToc /\ HasNcx) =>
        LET m == Opf.manifest
            spine == Opf.spine
            nav == Member(T_OPS \o T_TOC_xhtml).nav
            navMap == Member(T_OPS \o T_toc_ncx).navMap
            N == Len(description.chapters)
        IN  /\ Len(nav) = N
            /\ Len(navMap) = N
            /\ Len(spine) = N + 1
            /\ \A k \in 1..N :
                 /\ nav[k].href = navMap[k].src
                 /\ nav[k].text = navMap[k].label
                 /\ \E j \in 1..Len(m) : /\ m[j].id = spine[k + 1].idref
                                          /\ m[j].href = nav[k].href
                 /\ nav[k].href # T_titlepage_xhtml
                 /\ navMap[k].src # T_titlepage_xhtml

\* Both navigation documents written for two chapters with different titles.
C4_Witness ==
    /\ HasPackage /\ HasToc /\ HasNcx
    /\ Len(Member(T_OPS \o T_TOC_xhtml).nav) = 2
    /\ Member(T_OPS \o T_TOC_xhtml).nav[1].text # Member(T_OPS \o T_TOC_xhtml).nav[2].text

\* C5: the manifest lists navigation document, NCX, title page, the chapters
\* in declaration order, the images in discovery order and the styles in the
\* order of the style set: 3 + N + M + S items, and only the navigation item
\* carries the nav property.
C5_ManifestSections ==
    HasPackage =>
        LET m == Opf.manifest
            N == Len(description.chapters)
            M == Len(DiscoveredImages)
            S == Cardinality(StyleSet(description))
        IN  /\ Len(m) = 3 + N + M + S
            /\ m[1].href = T_TOC_xhtml /\ m[1].id = T_toc
            /\ m[2].href = T_toc_ncx /\ m[2].id = T_ncx
            /\ m[3].href = T_titlepage_xhtml /\ m[3].id = T_titlepage
            /\ \A k \in 1..N : m[3 + k].href = ChapterDocName(k)
            /\ \A k \in 1..M : m[3 + N + k].href = join(T_images, DiscoveredImages[k])
            /\ \A k \in 1..S : /\ m[3 + N + M + k].media_type = "text/css"
                               /\ m[3 + N + M + k].href \in StyleSet(description)
            /\ InThisRun =>
                 \A k \in 1..S : m[3 + N + M + k].href = styles[k]
            /\ \A k \in 1..Len(m) : HasProperty(m[k], "nav") <=> k = 1

\* Two chapters, one image, one default stylesheet: seven items.
C5_Witness ==
    /\ HasPackage
    /\ Len(description.chapters) = 2
    /\ Len(DiscoveredImages) = 1
    /\ Len(description.default_css) = 1
    /\ \A k \in 1..2 : "css" \notin DOMAIN description.chapters[k]
    /\ Len(Opf.manifest) = 7

\* C6: the image whose path is cover_image is the only manifest item with
\* the cover-image property, the metadata's cover reference holds that
\* item's id, and at most one cover reference is emitted.
C6_CoverConsistency ==
    HasPackage =>
        LET m == Opf.manifest
            md == Opf.metadata
            covers == {k \in 1..Len(m) : HasProperty(m[k], "cover-image")}
            refs == {k \in 1..Len(md) : md[k].tag = "meta" /\ "name" \in DOMAIN md[k]
                                          /\ md[k].name = "cover"}
        IN  /\ Cardinality(covers) <= 1
            /\ Cardinality(refs) <= 1
            /\ \A k \in 1..Len(m) :
                 HasProperty(m[k], "cover-image") <=>
                    ("cover_image" \in DOMAIN description /\
                     m[k].href = description.cover_image /\ m[k].media_type \in
                        {"image/gif", "image/jpeg", "image/png"})
            /\ \A k \in covers : \E r \in refs : md[r].content = m[k].id
            /\ \A r \in refs : \E k \in covers : md[r].content = m[k].id

\* A package whose cover image is the second image found.
C6_Witness ==
    /\ HasPackage
    /\ \E k \in 1..Len(Opf.manifest) :
          /\ HasProperty(Opf.manifest[k], "cover-image")
          /\ Opf.manifest[k].id = T_image_ \o Fmt05d(1)

RECURSIVE AppendIfAbsent(_, _)
\* s without the later occurrences of an element it holds more than once.
AppendIfAbsent(s, seen) ==
    IF s = <<>> THEN <<>>
    ELSE IF Head(s) \in seen THEN AppendIfAbsent(Tail(s), seen)
    ELSE <<Head(s)>> \o AppendIfAbsent(Tail(s), seen \cup {Head(s)})

\* The default stylesheets in declared order, then the styles of the
\* chapters in declaration order, each path once.
OrderedStyles(data) ==
    LET declared == SelectSeq(data.chapters, LAMBDA chapter : "css" \in DOMAIN chapter)
    IN  AppendIfAbsent(data.default_css \o [k \in 1..Len(declared) |-> declared[k].css], {})

\* __init__ has returned.
Loaded == language # None

\* The names of the members of the archive, in the order written.
MemberNames == [k \in 1..Len(epub) |-> epub[k].filename]

\* The members of the archive from position a on.
MembersFrom(a) == SubSeq(MemberNames, a, Len(epub))

\* C7: the style set holds each path once, default stylesheets first in
\* declared order, then the chapters' styles in declaration order; the
\* manifest's style items and the archive's stylesheets follow that order.
C7_StyleSetOrdered ==
    Loaded =>
        LET ordered == OrderedStyles(description)
            N == Len(description.chapters)
            M == Len(DiscoveredImages)
        IN  /\ styles = ordered
            /\ (InThisRun /\ HasPackage) =>
                  [k \in 1..Len(ordered) |-> Opf.manifest[3 + N + M + k].href] = ordered
            /\ pc \in {"written", "success"} =>
                  MembersFrom(7 + N + M) = [k \in 1..Len(ordered) |-> T_OPS \o ordered[k]]

\* C8: a second build from the same description and source directory gives
\* the manifest, spine and guide of the first, item for item.
C8_IdempotentStructure ==
    (previous.ran /\ pc = "success") =>
        /\ Structure(epub).manifest = previous.manifest
        /\ Structure(epub).spine = previous.spine
        /\ Structure(epub).guide = previous.guide

\* C9: at every point of the write sequence mimetype is the first member and
\* the only one stored; every other member is deflated at level 9.
C9_MimetypeFirstStored ==
    \A k \in 1..Len(epub) :
        /\ k = 1 => (epub[k].filename = T_mimetype /\ epub[k].compress_type = ZIP_STORED)
        /\ k > 1 => /\ epub[k].filename # T_mimetype
                    /\ epub[k].compress_type = ZIP_DEFLATED
                    /\ epub[k].compresslevel = 9

\* A finished archive with chapters, images and stylesheets.
C9_Witness ==
    /\ pc = "success"
    /\ epub_state = "closed"
    /\ Len(epub) >= 11

\* C10: the members are written in the order mimetype, container.xml,
\* package.opf, titlepage.xhtml, the chapters in declaration order,
\* TOC.xhtml, toc.ncx, the images in discovery order, the stylesheets; and
\* the order is the same for every build of the same input.
C10_MemberOrder ==
    pc \in {"written", "success"} =>
        LET N == Len(description.chapters)
            M == Len(DiscoveredImages)
            sheets == MembersFrom(7 + N + M)
        IN  /\ SubSeq(MemberNames, 1, 6 + N + M) =
                  <<T_mimetype, T_container, T_package_opf, T_OPS \o T_titlepage_xhtml>>
                  \o [k \in 1..N |-> T_OPS \o ChapterDocName(k)]
                  \o <<T_OPS \o T_TOC_xhtml, T_OPS \o T_toc_ncx>>
                  \o [k \in 1..M |-> T_OPS \o join(T_images, DiscoveredImages[k])]
            /\ Range(sheets) = {T_OPS \o style : style \in StyleSet(description)}
            /\ Len(sheets) = Cardinality(StyleSet(description))
            /\ previous.ran => MemberNames = previous.members

\* C11: when a chapter's converted markup is not well-formed the build exits
\* with ERROR_INVALID_MARKDOWN and the destination is not left as a readable
\* zip holding only the members written before the failure.
C11_NoPartialArchive ==
    (pc = "exit" /\ exit_code = ERROR_INVALID_MARKDOWN) => epub_state # "closed"

\* C12: the body of every chapter document holds all the top-level child
\* nodes of the chapter's converted fragment, each once, in their order.
C12_BodyKeepsChildren ==
    Loaded =>
        \A k \in 1..Len(description.chapters) :
            (InThisRun /\ HasMember(T_OPS \o ChapterDocName(k))) =>
                Member(T_OPS \o ChapterDocName(k)).body =
                    files[description.chapters[k].markdown].nodes

\* C13: chapter_title gives the first line of the source without its leading
\* run of "#" and the run of spaces after it, the rest of the line as it
\* is; nothing after the first line end has a part in it.
C13_TitleStripsHeading ==
    call.fn = "chapter_title" =>
        LET text == files[call.arg].text
            n == CHOOSE n \in 1..(Len(text) + 1) :
                     /\ n <= Len(text) => text[n] = "\n"
                     /\ \A m \in 1..(n - 1) : text[m] # "\n"
            line == SubSeq(text, 1, n - 1)
        IN  \E h \in 0..Len(line) : \E s \in 0..(Len(line) - h) :
                /\ \A m \in 1..h : line[m] = "#"
                /\ \A m \in (h + 1)..(h + s) : line[m] = " "
                /\ h + s < Len(line) =>
                      /\ line[h + s + 1] # " "
                      /\ s = 0 => line[h + s + 1] # "#"
                /\ call.result = SubSeq(line, h + s + 1, Len(line))

\* The title of a source beginning "## My T", a line end, and a body.
C13_Witness ==
    /\ call.fn = "chapter_title"
    /\ files[call.arg].text = Text_a
    /\ call.result = <<"M", "y", " ", "T">>

\* C14: a metadata value or chapter title with "&", "<", ">" or a double
\* quote in it is written, as element text and as attribute value, so that
\* the document is well-formed and reads back as the original string.
C14_EscapingRoundTrip ==
    call.fn = "toxml" =>
        /\ ParseData(call.result, call.place).ok
        /\ ParseData(call.result, call.place).value = call.arg

\* A value holding the four characters' worst case, written in an attribute.
C14_Witness ==
    /\ call.fn = "toxml"
    /\ call.place = "attribute"
    /\ call.arg = <<"&", "\"", "<">>
    /\ call.result = E_amp \o E_quot \o E_lt

\* C15: a description that cannot be read, or that lacks the title, the
\* creator, the language, the identifier or the cover image, is rejected
\* when it is loaded: no generator is constructed from it and the
\* destination archive is never opened.
C15_LoadRejects ==
    (\/ \E key \in {"chapters", "metadata", "default_css", "cover_image"} :
            key \notin DOMAIN description
     \/ \E key \in {"dc:title", "dc:creator", "dc:language", "dc:identifier"} :
            ~MetaHas(description.metadata, key))
    => (~Loaded /\ epub_state = "absent")

\* C16: with zopfli requested, a build in which an external optimizer
\* exited with a non-zero code never reports success.
C16_OptimizerFailureFatal ==
    (options.zopfli /\ \E k \in 1..Len(optimizer) : optimizer[k].rc # 0)
        => pc # "success"

\* C17: in every package document written, unique-identifier is the id of a
\* dc:identifier element that the metadata holds.
C17_UniqueIdentifierResolves ==
    HasPackage =>
        \E k \in 1..Len(Opf.metadata) :
            /\ Opf.metadata[k].tag = "dc:identifier"
            /\ Opf.metadata[k].id = Opf.package.unique_identifier

\* C18: the metadata of a package document holds one element per non-empty
\* metadata field of the description, in the description's order, none for
\* an empty field, then exactly one dcterms:modified element, and a cover
\* reference exactly when the cover image is among the discovered images.
C18_MetadataElements ==
    HasPackage =>
        LET fields == SelectSeq(description.metadata, LAMBDA kv : kv[2] # "")
            n == Len(fields)
            md == Opf.metadata
            IsModified(e) == "property" \in DOMAIN e /\ e.property = "dcterms:modified"
            IsCover(e) == "name" \in DOMAIN e /\ e.name = "cover"
            discovered ==
                /\ "cover_image" \in DOMAIN description
                /\ \E k \in 1..Len(DiscoveredImages) :
                      join(T_images, DiscoveredImages[k]) = description.cover_image
        IN  /\ Len(md) >= n + 1
            /\ \A k \in 1..n : md[k].tag = fields[k][1] /\ md[k].text = fields[k][2]
            /\ IsModified(md[n + 1])
            /\ Cardinality({k \in 1..Len(md) : IsModified(md[k])}) = 1
            /\ Len(md) = n + 1 + (IF discovered THEN 1 ELSE 0)
            /\ \A k \in (n + 2)..Len(md) : IsCover(md[k])

\* A package from a description with an empty field and a discovered cover:
\* five fields, the modification time and the cover reference.
C18_Witness ==
    /\ HasPackage
    /\ description.metadata = MetaFull
    /\ Len(Opf.metadata) = 7
    /\ Opf.metadata[6].property = "dcterms:modified"
    /\ Opf.metadata[7].name = "cover"

\* C19 as stated: the package document, the title page, every chapter
\* document, TOC.xhtml, toc.ncx and META-INF/container.xml each carry the
\* dc:language of the description as their language attribute.
C19_LanguageEverywhere ==
    \A k \in 1..Len(epub) :
        epub[k].filename \in LanguageDocuments \cup {T_container} =>
            LangOf(epub[k].data) = MetaGet(description.metadata, "dc:language")

\* C19 amended: the package document, the title page, every chapter
\* document, TOC.xhtml and toc.ncx carry the dc:language of the description
\* as their language attribute; META-INF/container.xml carries none.
C19_LanguageExceptContainer ==
    \A k \in 1..Len(epub) :
        /\ epub[k].filename \in LanguageDocuments =>
               LangOf(epub[k].data) = MetaGet(description.metadata, "dc:language")
        /\ epub[k].filename = T_container => LangOf(epub[k].data) = None

\* A finished archive: container.xml, package.opf, the title page, two
\* chapters, TOC.xhtml and toc.ncx, the last with the description's language.
C19_Witness ==
    /\ pc = "success"
    /\ HasMember(T_container)
    /\ Len(description.chapters) = 2
    /\ HasMember(T_OPS \o ChapterDocName(2))
    /\ HasNcx
    /\ LangOf(Member(T_OPS \o T_toc_ncx)) = "en-US"

\* C20: get_image_mimetype answers for every name, and by the final
\* extension alone: a name whose last component ends in ".gif" after a stem
\* that is not only dots gives image/gif, in ".jpg" or ".jpeg" image/jpeg,
\* in ".png" image/png, and every other name application/octet-stream.
C20_MimetypeByExtension ==
    call.fn = "get_image_mimetype" =>
        LET name == call.arg
            EndsIn(ext) ==
                /\ Len(name) > Len(ext)
                /\ SubSeq(name, Len(name) - Len(ext) + 1, Len(name)) = ext
                /\ \E k \in 1..(Len(name) - Len(ext)) :
                      /\ name[k] \notin {".", "/"}
                      /\ \A m \in k..(Len(name) - Len(ext)) : name[m] # "/"
        IN  call.result =
                IF EndsIn(T_gif) THEN "image/gif"
                ELSE IF EndsIn(T_jpg) \/ EndsIn(T_jpeg) THEN "image/jpeg"
                ELSE IF EndsIn(T_png) THEN "image/png"
                ELSE "application/octet-stream"

\* A name with two extensions: the last one decides.
C20_Witness ==
    /\ call.fn = "get_image_mimetype"
    /\ call.arg = <<"e", "/", "t">> \o T_gif \o T_jpeg
    /\ call.result = "image/jpeg"

\* C21: parse_command_line takes the arguments left to right.  Before the
\* first "--", an argument starting with "--" is recorded as an option (True,
\* or the text after its first "=") and leaves command and arguments alone;
\* the first "--" is consumed and records nothing; every other argument, and
\* every argument after the first "--", is positional: the first positional
\* one becomes the command, bringing the defaults of its settings into
\* options when it is a known command, and the later ones are appended to
\* arguments.
C21_ParseLeftToRight ==
    [][(pc = "main" /\ argi' = argi + 1) =>
        LET a == argv[argi + 1]
            ended == \E j \in 1..argi : argv[j] = T_dashes
            old == command_line
            new == command_line'
        IN  IF ~ended /\ a = T_dashes
            THEN new = old
            ELSE IF ~ended /\ Len(a) > 2 /\ a[1] = "-" /\ a[2] = "-"
            THEN /\ new.command = old.command
                 /\ new.arguments = old.arguments
                 /\ \E key \in DOMAIN new.options :
                       /\ \A k \in 1..Len(key) : key[k] # "="
                       /\ \/ a = T_dashes \o key /\ new.options[key] = PyTrue
                          \/ a = T_dashes \o key \o <<"=">> \o new.options[key]
                       /\ \A other \in DOMAIN old.options \ {key} :
                             other \in DOMAIN new.options
                             /\ new.options[other] = old.options[other]
            ELSE IF old.command = PyNone
            THEN /\ new.command = a
                 /\ new.arguments = old.arguments
                 /\ a \in DOMAIN OPTIONS =>
                       \A setting \in DOMAIN OPTIONS[a].settings :
                           /\ setting \in DOMAIN new.options
                           /\ new.options[setting] = OPTIONS[a].settings[setting]
                 /\ a \notin DOMAIN OPTIONS => new.options = old.options
            ELSE /\ new.command = old.command
                 /\ new.options = old.options
                 /\ new.arguments = Append(old.arguments, a)
    ]_vars

\* "--o=a=b convert -- --zopfli" parsed: one option with the text after its
\* first "=", the command with its defaults, and "--zopfli" as an argument.
C21_Witness ==
    /\ argv = <<A_other, T_convert, T_dashes, A_zopfli>>
    /\ argi = 4
    /\ command_line.command = T_convert
    /\ command_line.arguments = <<A_zopfli>>
    /\ command_line.options[<<"o">>] = <<"a", "=", "b">>
    /\ command_line.options[T_zopfli] = PyFalse

\* C22: check_command_line ends the process with ERROR_NO_COMMAND when
\* there is no command, else ERROR_UNKNOWN_COMMAND when the command is not
\* convert, init or help, else ERROR_UNKNOWN_OPTION when an option is not a
\* setting of the command, else ERROR_ARGUMENT_COUNT when the command has
\* not its number of arguments (convert 2, init 1, help 0); and it returns,
\* the process running on, exactly when none of the four applies.
C22_CheckCommandLine ==
    [][(pc = "main" /\ pc' # "main") =>
        LET cl == command_line
            settings == IF cl.command = T_convert
                        THEN {T_gray_images, T_jpeg_quality, T_zopfli} ELSE {}
            count == IF cl.command = T_convert THEN 2
                     ELSE IF cl.command = T_init THEN 1 ELSE 0
            no_command == cl.command = PyNone
            unknown_command == cl.command \notin {T_convert, T_init, T_help}
            unknown_option == \E option \in DOMAIN cl.options : option \notin settings
            bad_count == Len(cl.arguments) # count
        IN  /\ no_command => (pc' = "exit" /\ exit_code' = ERROR_NO_COMMAND)
            /\ (~no_command /\ unknown_command) =>
                  (pc' = "exit" /\ exit_code' = ERROR_UNKNOWN_COMMAND)
            /\ (~no_command /\ ~unknown_command /\ unknown_option) =>
                  (pc' = "exit" /\ exit_code' = ERROR_UNKNOWN_OPTION)
            /\ (~no_command /\ ~unknown_command /\ ~unknown_option /\ bad_count) =>
                  (pc' = "exit" /\ exit_code' = ERROR_ARGUMENT_COUNT)
            /\ (~no_command /\ ~unknown_command /\ ~unknown_option /\ ~bad_count) <=>
                  (pc' = "checked" /\ exit_code' = -1)
    ]_vars

\* "help --o=a=b s": an option help has not and one argument too many; the
\* option decides.
C22_Witness ==
    /\ argv = <<T_help, A_other, A_src>>
    /\ pc = "exit"
    /\ exit_code = ERROR_UNKNOWN_OPTION

\* C23: create gives an element with the tag and exactly the attributes
\* given, without child for the content None or "", and with the content as
\* its only child otherwise; append_to makes the same element, puts it
\* after the children the parent has, changes nothing else of the parent,
\* and returns the element.
C23_CreateAppendTo ==
    call.fn \in {"create", "append_to"} =>
        LET element == call.result
            given == IF call.attributes = PyNoneValue THEN {} ELSE call.attributes.items
        IN  /\ element.tag = call.tag
            /\ element.attributes = given
            /\ call.content \in {PyNoneValue, PyStr("")} => element.childNodes = <<>>
            /\ call.content \notin {PyNoneValue, PyStr("")} =>
                  /\ Len(element.childNodes) = 1
                  /\ call.content.type = "str" =>
                        element.childNodes[1] = [type |-> "Text", data |-> call.content.value]
                  /\ call.content.type = "Element" => element.childNodes[1] = call.content
            /\ call.fn = "append_to" =>
                  /\ call.parent_after.childNodes = Append(call.parent.childNodes, element)
                  /\ call.parent_after.tag = call.parent.tag
                  /\ call.parent_after.attributes = call.parent.attributes

\* <p class="left">Hello</p> appended to an html element that has a child.
C23_Witness ==
    /\ call.fn = "append_to"
    /\ call.parent.tag = "html"
    /\ Len(call.parent.childNodes) = 1
    /\ call.content = PyStr("Hello")
    /\ call.attributes = PyDict({<<"class", "left">>})
    /\ Len(call.parent_after.childNodes) = 2
    /\ call.parent_after.childNodes[2].childNodes = <<[type |-> "Text", data |-> "Hello"]>>

\* C24: while the archive is open every step either adds one member after
\* those written or ends the build with an error, closing the archive as it
\* is; once the process has ended with an error nothing more is written and
\* nothing runs again; and success is reported only with every member in
\* the archive: mimetype, container.xml, package.opf, the title page, TOC.xhtml,
\* toc.ncx, every chapter, every discovered image and every stylesheet.
C24_FailFast ==
    [][/\ (epub_state = "open" /\ epub_state' = "open") =>
              /\ Len(epub') = Len(epub) + 1
              /\ SubSeq(epub', 1, Len(epub)) = epub
              /\ pc' # "exit"
       /\ (epub_state = "open" /\ pc' = "exit") =>
              /\ epub' = epub
              /\ epub_state' = "closed"
              /\ exit_code' > 0
       /\ pc = "exit" => (pc' = "exit" /\ epub' = epub /\ epub_state' = epub_state)
       /\ pc' = "success" =>
              /\ epub_state' = "closed"
              /\ Len(epub') = 6 + Len(description.chapters) + Len(DiscoveredImages)
                                + Cardinality(StyleSet(description))
    ]_vars

\* A build stopped by zopflipng on the first PNG: the documents are in the
\* archive, no image is, and the process has ended with ERROR_ZOPFLI.
C24_Witness ==
    /\ pc = "exit"
    /\ exit_code = ERROR_ZOPFLI
    /\ epub_state = "closed"
    /\ HasNcx
    /\ Len(epub) = 6 + Len(description.chapters)

\* C25: when the convert command has zopfli set and advzip or zopflipng is
\* not found, the process ends with ERROR_ZOPFLI_UNAVAILABLE with no
\* description loaded and no archive opened; a build that has started with
\* zopfli set has found both tools.
C25_ToolsCheckedFirst ==
    /\ (\E k \in 1..Len(which_results) : ~which_results[k].found) =>
           /\ pc = "exit"
           /\ exit_code = ERROR_ZOPFLI_UNAVAILABLE
           /\ ~Loaded
           /\ settings_data = None
           /\ epub_state = "absent"
           /\ epub = <<>>
    /\ (pc \notin {"main", "checked", "exit"} /\ command_line.command = T_convert
        /\ Truthy(command_line.options[T_zopfli])) =>
           which_results = <<[tool |-> "advzip", found |-> TRUE],
                             [tool |-> "zopflipng", found |-> TRUE]>>

\* "convert --zopfli s s" with advzip installed and zopflipng not.
C25_Witness ==
    /\ argv = <<T_convert, A_zopfli, A_src, A_src>>
    /\ which_results = <<[tool |-> "advzip", found |-> TRUE],
                         [tool |-> "zopflipng", found |-> FALSE]>>
    /\ pc = "exit"
    /\ exit_code = ERROR_ZOPFLI_UNAVAILABLE

\* C26: the head of every chapter's document links the default stylesheets
\* in declared order and then the chapter's own css when it declares one,
\* none declared only by another chapter, and no path more than once.
C26_ChapterHeadStyles ==
    \A k \in 1..Len(epub) :
        \A i \in 1..(IF Loaded THEN Len(settings_data.chapters) ELSE 0) :
            epub[k].filename = T_OPS \o ChapterDocName(i) =>
                LET chapter == description.chapters[i]
                    links == epub[k].data.links
                    own == IF "css" \in DOMAIN chapter THEN <<chapter.css>> ELSE <<>>
                IN  /\ links = description.default_css \o own
                    /\ \A a, b \in 1..Len(links) : links[a] = links[b] => a = b

\* The positions of argv that parse_command_line reads as options: those
\* before the first "--".
SuppliedOptions ==
    {i \in 1..Len(argv) : /\ IsOption(argv[i]) /\ argv[i] # T_dashes
                          /\ \A j \in 1..i : argv[j] # T_dashes}

\* C27: after parse_command_line, every option the user supplied has the
\* value the user gave it (the last one given), whether it stands before or
\* after the command word; the command's default never replaces it.
C27_ExplicitOverDefault ==
    argi = Len(argv) =>
        \A i \in SuppliedOptions :
            (\A j \in SuppliedOptions : OptionKey(argv[j]) = OptionKey(argv[i]) => j <= i) =>
                /\ OptionKey(argv[i]) \in DOMAIN command_line.options
                /\ command_line.options[OptionKey(argv[i])] = OptionValue(argv[i])

\* The archive members under OPS/ other than the package document.
OpsMembers ==
    {k \in 1..Len(epub) :
        /\ Len(epub[k].filename) > Len(T_OPS)
        /\ SubSeq(epub[k].filename, 1, Len(T_OPS)) = T_OPS
        /\ epub[k].filename # T_package_opf}

\* C28: after a successful create_epub every manifest item's href names an
\* archive member OPS/<href>, every member under OPS/ other than the package
\* document is the href of exactly one manifest item, and each chapter's
\* manifest href, member name, TOC.xhtml href and toc.ncx src are the same.
C28_ManifestMatchesArchive ==
    pc \in {"written", "success"} =>
        LET m == Opf.manifest
            N == Len(description.chapters)
        IN  /\ \A i \in 1..Len(m) : HasMember(T_OPS \o m[i].href)
            /\ \A k \in OpsMembers :
                   Cardinality({i \in 1..Len(m) : T_OPS \o m[i].href = epub[k].filename}) = 1
            /\ Len(Member(T_OPS \o T_TOC_xhtml).nav) = N
            /\ Len(Member(T_OPS \o T_toc_ncx).navMap) = N
            /\ \A i \in 1..N :
                   /\ epub[4 + i].filename = T_OPS \o m[3 + i].href
                   /\ Member(T_OPS \o T_TOC_xhtml).nav[i].href = m[3 + i].href
                   /\ Member(T_OPS \o T_toc_ncx).navMap[i].src = m[3 + i].href

\* A finished build of two chapters, two images and two stylesheets.
C28_Witness ==
    /\ pc = "success"
    /\ Len(description.chapters) = 2
    /\ Len(images) = 2
    /\ Len(styles) = 2
    /\ Cardinality(OpsMembers) = 9
    /\ Len(Opf.manifest) = 9

\* C29: in every build that succeeds, the img src of OPS/titlepage.xhtml is
\* the href of an image item of the manifest and names an archive member
\* under OPS/.
C29_CoverIsResource ==
    pc \in {"written", "success"} =>
        LET src == Member(T_OPS \o T_titlepage_xhtml).img_src
            m == Opf.manifest
            N == Len(description.chapters)
        IN  /\ \E i \in (3 + N + 1)..(3 + N + Len(images)) : m[i].href = src
            /\ HasMember(T_OPS \o src)

\* C30: no step of create_epub changes the generator (the description it
\* holds with its default_css and chapters, the styles, the images, the
\* identifier), the description it holds is the one that was loaded, and a
\* second create_epub on the same generator writes the same member names in
\* the same order.
C30_ModelUnchanged ==
    [][/\ pc # "start" => generator' = generator
       /\ Loaded' =>
              /\ settings_data'.default_css = description.default_css
              /\ settings_data'.chapters = description.chapters
       /\ (previous'.ran /\ pc' = "written") =>
              /\ generator' = previous'.generator
              /\ [k \in 1..Len(epub') |-> epub'[k].filename] = previous'.members
    ]_vars

\* A second archive written by the generator of a description whose second
\* chapter declares its own css.
C30_Witness ==
    /\ previous.ran
    /\ pc = "written"
    /\ Len(description.chapters) = 2
    /\ "css" \in DOMAIN description.chapters[2]
    /\ Len(description.default_css) = 2
    /\ Len(epub) = Len(previous.members)

=============================================================================
